---- MODULE Spec2Model ----
(***************************************************************************)
(* VanityOS API: the food matching core (food_mapper.py,                   *)
(* ml_food_analyzer.py) and the request handlers of main.py.               *)
(*                                                                         *)
(* Python strings are modelled as sequences of one-character strings, so   *)
(* that lower(), strip(), replace(), split(), join() and the substring     *)
(* test `in` are computed character by character.  Python dict objects     *)
(* live in `heap` and are passed around by reference (a positive number);  *)
(* the null reference 0 is Python's None.                                  *)
(***************************************************************************)
EXTENDS Integers, Sequences, FiniteSets, TLC

VARIABLES
  FOOD_TO_CARRIER,      \* food_mapper.FOOD_TO_CARRIER: ordered dict, <<key, canonical name>> pairs
  COMEDOGENIC_DB,       \* food_mapper.COMEDOGENIC_DB: ordered dict, <<canonical name, ref>> pairs
  heap,                 \* the live dict objects: ref -> dict
  database,             \* the list of entry refs last handed to the matcher
  _model_cache,         \* ml_food_analyzer._model_cache: 0 (None) or the id of a loaded model
  _labels_cache,        \* ml_food_analyzer._labels_cache: <<>> (None) or <<list of labels>>
  loads,                \* number of keras.models.load_model invocations so far
  processor_foodcheck,  \* main.processor_foodcheck: 0 (None) or the id of a loaded processor
  model_foodcheck,      \* main.model_foodcheck: 0 (None) or the id of a loaded model
  hf_loads,             \* number of from_pretrained invocations so far, <<processor, model>>
  input,                \* the arguments and files the calls are made with
  call,                 \* the last completed call
  ret,                  \* what the last completed call returned or raised
  pc,                   \* per thread: position inside load_model_and_labels / load_food_model
  local                 \* per thread: what its finished call returned

vars == <<FOOD_TO_CARRIER, COMEDOGENIC_DB, heap, database, _model_cache, _labels_cache,
          loads, processor_foodcheck, model_foodcheck, hf_loads, input, call, ret, pc, local>>

-----------------------------------------------------------------------------
(* Bounds of the model *)

\* longest string given to normalize_food_name
MaxLen == 4

-----------------------------------------------------------------------------
(* Python values *)

\* None where a str is expected
None == "None"

\* None where a dict is expected
NullRef == 0

\* bool(x) of an Optional[str]
Truthy(x) == x # None /\ x # ""

\* the ASCII letters, upper case and lower case in the same order
UpperLetters == <<"A", "B", "C", "D", "E", "F", "G", "H", "I", "J", "K", "L", "M",
                  "N", "O", "P", "Q", "R", "S", "T", "U", "V", "W", "X", "Y", "Z">>
LowerLetters == <<"a", "b", "c", "d", "e", "f", "g", "h", "i", "j", "k", "l", "m",
                  "n", "o", "p", "q", "r", "s", "t", "u", "v", "w", "x", "y", "z">>

\* str.lower() of one character
LowerMap ==
  [c \in {UpperLetters[i] : i \in 1..26} |->
     LowerLetters[CHOOSE i \in 1..26 : UpperLetters[i] = c]]

\* the characters str.split() and str.strip() treat as whitespace
Whitespace == {" ", "\t", "\n"}

\* s.lower()
str_lower(s) == [i \in 1..Len(s) |-> IF s[i] \in DOMAIN LowerMap THEN LowerMap[s[i]] ELSE s[i]]

\* s.replace(old, new) for one-character old and new
str_replace(s, old, new) == [i \in 1..Len(s) |-> IF s[i] = old THEN new ELSE s[i]]

RECURSIVE str_lstrip(_)
\* s.lstrip()
str_lstrip(s) ==
  IF s # <<>> /\ Head(s) \in Whitespace THEN str_lstrip(Tail(s)) ELSE s

RECURSIVE str_rstrip(_)
\* s.rstrip()
str_rstrip(s) ==
  IF s # <<>> /\ s[Len(s)] \in Whitespace THEN str_rstrip(SubSeq(s, 1, Len(s) - 1)) ELSE s

\* s.strip()
str_strip(s) == str_rstrip(str_lstrip(s))

RECURSIVE split_scan(_, _, _)
\* the scan of s.split(): cur is the word being read, acc the words read so far
split_scan(s, cur, acc) ==
  IF s = <<>>
  THEN IF cur = <<>> THEN acc ELSE Append(acc, cur)
  ELSE IF Head(s) \in Whitespace
       THEN split_scan(Tail(s), <<>>, IF cur = <<>> THEN acc ELSE Append(acc, cur))
       ELSE split_scan(Tail(s), Append(cur, Head(s)), acc)

\* s.split(): the maximal runs of non-whitespace characters, in order
str_split(s) == split_scan(s, <<>>, <<>>)

RECURSIVE str_join(_, _)
\* sep.join(words)
str_join(sep, words) ==
  IF words = <<>> THEN <<>>
  ELSE IF Len(words) = 1 THEN words[1]
  ELSE words[1] \o sep \o str_join(sep, Tail(words))

\* a in b, for strings
str_in(a, b) == \E i \in 0..(Len(b) - Len(a)) : SubSeq(b, i + 1, i + Len(a)) = a

RECURSIVE dict_get(_, _, _)
\* d.get(key), for a dict kept as the sequence of its <<key, value>> pairs; none when absent
dict_get(d, key, none) ==
  IF d = <<>> THEN none
  ELSE IF d[1][1] = key THEN d[1][2]
  ELSE dict_get(Tail(d), key, none)

\* d with d[key] = value assigned (a new key is added last)
dict_set(d, key, value) ==
  [k \in DOMAIN d \cup {key} |-> IF k = key THEN value ELSE d[k]]

-----------------------------------------------------------------------------
(* food_mapper.py *)

\* FOOD_TO_CARRIER as written in the source, in definition order
FoodToCarrierLiteral ==
  <<
    <<<<"p", "u", "m", "p", "k", "i", "n", " ", "s", "e", "e", "d">>, "Pumpkin Seed Oil">>,  \* "pumpkin seed"
    <<<<"p", "u", "m", "p", "k", "i", "n", " ", "s", "e", "e", "d", "s">>, "Pumpkin Seed Oil">>,  \* "pumpkin seeds"
    <<<<"a", "v", "o", "c", "a", "d", "o">>, "Avocado Oil">>,  \* "avocado"
    <<<<"a", "v", "o", "c", "a", "d", "o", " ", "o", "i", "l">>, "Avocado Oil">>,  \* "avocado oil"
    <<<<"c", "o", "c", "o", "n", "u", "t">>, "Coconut Oil">>,  \* "coconut"
    <<<<"c", "o", "c", "o", "n", "u", "t", " ", "o", "i", "l">>, "Coconut Oil">>,  \* "coconut oil"
    <<<<"o", "l", "i", "v", "e">>, "Olive Oil">>,  \* "olive"
    <<<<"o", "l", "i", "v", "e", " ", "o", "i", "l">>, "Olive Oil">>,  \* "olive oil"
    <<<<"a", "r", "g", "a", "n">>, "Argan Oil">>,  \* "argan"
    <<<<"a", "r", "g", "a", "n", " ", "o", "i", "l">>, "Argan Oil">>,  \* "argan oil"
    <<<<"j", "o", "j", "o", "b", "a">>, "Jojoba Oil">>,  \* "jojoba"
    <<<<"j", "o", "j", "o", "b", "a", " ", "o", "i", "l">>, "Jojoba Oil">>,  \* "jojoba oil"
    <<<<"a", "l", "m", "o", "n", "d">>, "Almond Oil">>,  \* "almond"
    <<<<"a", "l", "m", "o", "n", "d", " ", "o", "i", "l">>, "Almond Oil">>,  \* "almond oil"
    <<<<"g", "r", "a", "p", "e", "s", "e", "e", "d">>, "Grapeseed Oil">>,  \* "grapeseed"
    <<<<"g", "r", "a", "p", "e", "s", "e", "e", "d", " ", "o", "i", "l">>, "Grapeseed Oil">>,  \* "grapeseed oil"
    <<<<"s", "u", "n", "f", "l", "o", "w", "e", "r">>, "Sunflower Oil">>,  \* "sunflower"
    <<<<"s", "u", "n", "f", "l", "o", "w", "e", "r", " ", "o", "i", "l">>, "Sunflower Oil">>,  \* "sunflower oil"
    <<<<"s", "h", "e", "a", " ", "b", "u", "t", "t", "e", "r">>, "Shea Butter">>,  \* "shea butter"
    <<<<"c", "o", "c", "o", "a", " ", "b", "u", "t", "t", "e", "r">>, "Cocoa Butter">>,  \* "cocoa butter"
    <<<<"c", "o", "c", "o", "a">>, "Cocoa Butter">>,  \* "cocoa"
    <<<<"s", "e", "s", "a", "m", "e">>, "Sesame Oil">>,  \* "sesame"
    <<<<"s", "e", "s", "a", "m", "e", " ", "o", "i", "l">>, "Sesame Oil">>,  \* "sesame oil"
    <<<<"r", "o", "s", "e", "h", "i", "p">>, "Rosehip Seed Oil">>,  \* "rosehip"
    <<<<"r", "o", "s", "e", "h", "i", "p", " ", "s", "e", "e", "d">>, "Rosehip Seed Oil">>,  \* "rosehip seed"
    <<<<"r", "o", "s", "e", "h", "i", "p", " ", "o", "i", "l">>, "Rosehip Seed Oil">>,  \* "rosehip oil"
    <<<<"c", "a", "s", "t", "o", "r">>, "Castor Oil">>,  \* "castor"
    <<<<"c", "a", "s", "t", "o", "r", " ", "o", "i", "l">>, "Castor Oil">>   \* "castor oil"
  >>

\* COMEDOGENIC_DB as written in the source, in definition order
ComedogenicDbLiteral ==
  <<
    <<"Pumpkin Seed Oil", [is_comedogenic |-> FALSE, grade |-> "0", notes |-> "Non-comedogenic, excellent for acne-prone skin"]>>,
    <<"Avocado Oil", [is_comedogenic |-> TRUE, grade |-> "2-3", notes |-> "Moderately comedogenic, use with caution on oily/acne-prone skin"]>>,
    <<"Coconut Oil", [is_comedogenic |-> TRUE, grade |-> "4", notes |-> "Highly comedogenic, avoid on acne-prone skin"]>>,
    <<"Olive Oil", [is_comedogenic |-> TRUE, grade |-> "2", notes |-> "Moderately comedogenic, may clog pores"]>>,
    <<"Argan Oil", [is_comedogenic |-> FALSE, grade |-> "0", notes |-> "Non-comedogenic, suitable for all skin types"]>>,
    <<"Jojoba Oil", [is_comedogenic |-> FALSE, grade |-> "0", notes |-> "Non-comedogenic, mimics skin's natural sebum"]>>,
    <<"Almond Oil", [is_comedogenic |-> FALSE, grade |-> "1-2", notes |-> "Low to moderately comedogenic"]>>,
    <<"Grapeseed Oil", [is_comedogenic |-> FALSE, grade |-> "1", notes |-> "Low comedogenic potential, suitable for most skin types"]>>,
    <<"Sunflower Oil", [is_comedogenic |-> FALSE, grade |-> "0-1", notes |-> "Non to low comedogenic, good for sensitive skin"]>>,
    <<"Shea Butter", [is_comedogenic |-> FALSE, grade |-> "0", notes |-> "Non-comedogenic, excellent moisturizer"]>>,
    <<"Cocoa Butter", [is_comedogenic |-> TRUE, grade |-> "4", notes |-> "Highly comedogenic, heavy and pore-clogging"]>>,
    <<"Sesame Oil", [is_comedogenic |-> FALSE, grade |-> "1-2", notes |-> "Low to moderately comedogenic"]>>,
    <<"Rosehip Seed Oil", [is_comedogenic |-> FALSE, grade |-> "0", notes |-> "Non-comedogenic, excellent for acne-prone and aging skin"]>>,
    <<"Castor Oil", [is_comedogenic |-> FALSE, grade |-> "0", notes |-> "Non-comedogenic, viscous oil"]>>
  >>

\* the refs of the COMEDOGENIC_DB records
StaticRefs == 1..Len(ComedogenicDbLiteral)

\* the heap right after import: the COMEDOGENIC_DB records as written
StaticHeap == [r \in StaticRefs |-> ComedogenicDbLiteral[r][2]]

\* the heap once the objects local to a finished call are gone: the module-level
\* dicts, as they now are
ModuleHeap == [r \in StaticRefs |-> heap[r]]

RECURSIVE partial_scan_last(_, _)
\* partial_scan without the break: the last key that passes the test wins
partial_scan_last(items, food_lower) ==
  IF items = <<>> THEN None
  ELSE LET rest == partial_scan_last(Tail(items), food_lower)
       IN  IF rest # None THEN rest
           ELSE IF str_in(items[1][1], food_lower) \/ str_in(food_lower, items[1][1])
                THEN items[1][2]
                ELSE None

RECURSIVE partial_scan(_, _)
\* the loop of get_ingredient_info: the carrier of the first key that contains
\* food_lower or is contained in it (break), None when the loop runs out
partial_scan(items, food_lower) ==
  IF items = <<>> THEN None
  ELSE IF str_in(items[1][1], food_lower) \/ str_in(food_lower, items[1][1])
       THEN items[1][2]
       ELSE partial_scan(Tail(items), food_lower)

\* get_ingredient_info(food_name): the ref of the record, or NullRef
get_ingredient_info(food_name) ==
  LET food_lower == str_strip(str_lower(food_name))
      exact      == dict_get(FOOD_TO_CARRIER, food_lower, None)
      carrier    == IF ~Truthy(exact) THEN partial_scan(FOOD_TO_CARRIER, food_lower) ELSE exact
  IN  IF ~Truthy(carrier) THEN NullRef
      ELSE dict_get(COMEDOGENIC_DB, carrier, NullRef)

-----------------------------------------------------------------------------
(* ml_food_analyzer.py: the matcher *)

\* normalize_food_name without the split/join that collapses whitespace
normalize_no_collapse(name) ==
  str_replace(str_replace(str_lower(name), "_", " "), "-", " ")

\* normalize_food_name(name)
normalize_food_name(name) ==
  LET lowered  == str_lower(name)
      replaced == str_replace(str_replace(lowered, "_", " "), "-", " ")
  IN  str_join(<<" ">>, str_split(replaced))

RECURSIVE exact_scan(_, _, _)
\* first loop of match_food: the first entry whose normalized food equals the label
exact_scan(db, normalized_label, h) ==
  IF db = <<>> THEN NullRef
  ELSE IF normalized_label = normalize_food_name(h[db[1]].food) THEN db[1]
  ELSE exact_scan(Tail(db), normalized_label, h)

RECURSIVE contains_scan(_, _, _)
\* second loop of match_food: the first entry whose normalized food contains the
\* label or is contained in it
contains_scan(db, normalized_label, h) ==
  IF db = <<>> THEN NullRef
  ELSE LET normalized_food == normalize_food_name(h[db[1]].food)
       IN  IF str_in(normalized_food, normalized_label) \/ str_in(normalized_label, normalized_food)
           THEN db[1]
           ELSE contains_scan(Tail(db), normalized_label, h)

\* match_food with the two passes merged into one loop
match_food_one_pass(label, db, h) ==
  LET normalized_label == normalize_food_name(label)
      hits == { i \in 1..Len(db) :
                  LET normalized_food == normalize_food_name(h[db[i]].food)
                  IN  \/ normalized_label = normalized_food
                      \/ str_in(normalized_food, normalized_label)
                      \/ str_in(normalized_label, normalized_food) }
  IN  IF hits = {} THEN NullRef ELSE db[CHOOSE i \in hits : \A j \in hits : i <= j]

\* match_food(label, database) once database is a list: its refs point into the heap h.
\* Every entry has a 'food' key, so a matched entry is never an empty (falsy) dict
match_food(label, db, h) ==
  LET normalized_label == normalize_food_name(label)
      exact            == exact_scan(db, normalized_label, h)
  IN  IF exact # NullRef THEN exact ELSE contains_scan(db, normalized_label, h)

-----------------------------------------------------------------------------
(* ml_food_analyzer.py: the classifier *)

\* the labels of ml/out/labels.json
LabelsList ==
  << <<"a", "v", "o", "c", "a", "d", "o", "_", "o", "i", "l">>,   \* "avocado_oil"
     <<"B", "a", "n", "a", "n", "a">>,                            \* "Banana"
     <<"p", "i", "z", "z", "a">> >>                               \* "pizza"

\* the same labels in the dict format {"0": ..., "1": ..., "2": ...} (any key order)
LabelsDict == << <<"1", LabelsList[2]>>, <<"0", LabelsList[1]>>, <<"2", LabelsList[3]>> >>

\* str(i) for the indexes of a labels dict
str_of_int(i) == <<"0", "1", "2", "3", "4", "5", "6", "7", "8", "9">>[i + 1]

\* how many labels the classifier has
NumLabels == Len(LabelsList)

\* the states of the labels file: absent, a JSON list, a JSON dict, any other JSON value
LabelsFileStates == {"missing", "list", "dict", "other"}

\* load_model_and_labels(), from the cache (mc, lc) after n model loads, with the
\* files as given: the exception raised ("none" when it returns), the new cache and
\* the new number of keras.models.load_model invocations
load_model_and_labels(mc, lc, n, files) ==
  IF mc # NullRef /\ lc # <<>>
  THEN [exc |-> "none", model_cache |-> mc, labels_cache |-> lc, loads |-> n]
  ELSE IF ~files.model
  THEN [exc |-> "FileNotFoundError", model_cache |-> mc, labels_cache |-> lc, loads |-> n]
  ELSE LET loaded == n + 1    \* keras.models.load_model returns a new object every time
       IN  CASE files.labels = "missing" ->
                  [exc |-> "FileNotFoundError", model_cache |-> loaded, labels_cache |-> lc,
                   loads |-> n + 1]
             [] files.labels = "list" ->
                  [exc |-> "none", model_cache |-> loaded, labels_cache |-> <<LabelsList>>,
                   loads |-> n + 1]
             [] files.labels = "dict" ->
                  [exc |-> "none", model_cache |-> loaded,
                   labels_cache |-> << [i \in 1..Len(LabelsDict) |->
                                          dict_get(LabelsDict, str_of_int(i - 1), None)] >>,
                   loads |-> n + 1]
             [] OTHER ->
                  [exc |-> "ValueError", model_cache |-> loaded, labels_cache |-> lc,
                   loads |-> n + 1]

\* s[start:], Python slicing with a possibly negative or too large start
py_slice_from(s, start) ==
  LET n     == Len(s)
      first == IF start < 0 THEN (IF start + n < 0 THEN 0 ELSE start + n)
               ELSE (IF start > n THEN n ELSE start)
  IN  SubSeq(s, first + 1, n)

\* s[::-1]
py_reversed(s) == [i \in 1..Len(s) |-> s[Len(s) + 1 - i]]

\* the results np.argsort(probs) may give: the index orders that sort probs
\* ascending (the default sort is not stable, so equal values come in any order)
argsort(probs) ==
  { order \in [1..Len(probs) -> 1..Len(probs)] :
      /\ \A i, j \in 1..Len(probs) : i # j => order[i] # order[j]
      /\ \A i \in 1..(Len(probs) - 1) : probs[order[i]] <= probs[order[i + 1]] }

\* the tail of predict_food, after the model ran: probs the model's output, order
\* the result of np.argsort(probs); the list of <<label, confidence>> pairs
top_predictions(probs, labels, top_k, order) ==
  LET top_indices == py_reversed(py_slice_from(order, -top_k))
  IN  [i \in 1..Len(top_indices) |-> <<labels[top_indices[i]], probs[top_indices[i]]>>]

\* predict_food from the preprocessing on, lm being what load_model_and_labels gave
predict_loaded(lm, image, top_k, order) ==
  IF lm.exc # "none" THEN lm @@ [value |-> <<>>]
  ELSE IF image = <<>> THEN [lm EXCEPT !.exc = "UnidentifiedImageError"] @@ [value |-> <<>>]
  ELSE lm @@ [value |-> top_predictions(image[1], lm.labels_cache[1], top_k, order)]

\* predict_food(image_bytes, top_k): image is <<>> for bytes PIL cannot decode and
\* <<probs>> for an image the model maps to probs; (mc, lc, n) is the cache state.
\* The exception raised ("none" when it returns), the new cache, the result
predict_food(files, image, top_k, order, mc, lc, n) ==
  predict_loaded(load_model_and_labels(mc, lc, n, files), image, top_k, order)

-----------------------------------------------------------------------------
(* ml_food_analyzer.py: the pipeline *)

\* h with the object r created or replaced
heap_put(h, r, d) == [x \in DOMAIN h \cup {r} |-> IF x = r THEN d ELSE h[x]]

\* json.load of the database file: one fresh dict per entry, after the static ones
alloc_database(content) == [i \in 1..Len(content) |-> Len(ComedogenicDbLiteral) + i]

\* the heap after json.load of the database file
heap_with_database(content) ==
  [r \in StaticRefs \cup {Len(ComedogenicDbLiteral) + i : i \in 1..Len(content)} |->
     IF r \in StaticRefs THEN heap[r] ELSE content[r - Len(ComedogenicDbLiteral)]]

\* matched_with_meta = matched, without the copy: the same object
dict_alias(matched, fresh) == matched

\* the ref of matched.copy(): a new object, fresh
dict_copy(matched, fresh) == fresh

\* detected_labels in the reverse of the candidate order
detected_labels_reversed(predictions) ==
  [i \in 1..Len(predictions) |-> predictions[Len(predictions) + 1 - i][1]]

\* detected_labels = [label for label, _ in predictions]
detected_labels_of(predictions) == [i \in 1..Len(predictions) |-> predictions[i][1]]

RECURSIVE match_loop_last(_, _, _, _)
\* match_loop without the return inside the loop: the last candidate that matches wins
match_loop_last(predictions, i, db, h) ==
  IF i > Len(predictions) THEN <<0, NullRef>>
  ELSE LET later   == match_loop_last(predictions, i + 1, db, h)
           matched == match_food(predictions[i][1], db, h)
       IN  IF later[1] # 0 THEN later
           ELSE IF matched # NullRef THEN <<i, matched>> ELSE <<0, NullRef>>

RECURSIVE match_loop(_, _, _, _)
\* the for loop of analyze_food_image from candidate i on: <<index of the first
\* candidate that match_food resolves, the matched ref>>, <<0, NullRef>> when none does
match_loop(predictions, i, db, h) ==
  IF i > Len(predictions) THEN <<0, NullRef>>
  ELSE LET matched == match_food(predictions[i][1], db, h)
       IN  IF matched # NullRef THEN <<i, matched>>
           ELSE match_loop(predictions, i + 1, db, h)

\* load_acne_food_database(): <<>> when the file is missing (FileNotFoundError),
\* else <<content>>
load_acne_food_database(files) == files.db

\* the body of the if in the loop of analyze_food_image: the copy of the matched
\* entry with the label and the confidence added, as the object fresh
heap_with_meta(h, matched, fresh, label, confidence) ==
  heap_put(h, dict_copy(matched, fresh),
           dict_set(dict_set(h[matched], "detected_label", label), "confidence", confidence))

\* the return statements of analyze_food_image, found being what the loop gave
analyze_return(base, found, fresh) ==
  IF found[1] = 0
  THEN [base EXCEPT !.detected_labels = detected_labels_of(base.predictions)]
  ELSE [base EXCEPT !.detected_labels = detected_labels_of(base.predictions),
                    !.heap = heap_with_meta(base.heap, found[2], fresh,
                                            base.predictions[found[1]][1],
                                            base.predictions[found[1]][2]),
                    !.entry = dict_copy(found[2], fresh)]

\* analyze_food_image after the database was loaded and predict_food was called
analyze_loaded(content, pf) ==
  IF pf.exc # "none"
  THEN [heap |-> heap_with_database(content), database |-> alloc_database(content),
        predictions |-> <<>>, entry |-> NullRef, detected_labels |-> <<>>] @@ pf
  ELSE analyze_return(
         [heap |-> heap_with_database(content), database |-> alloc_database(content),
          predictions |-> pf.value, entry |-> NullRef, detected_labels |-> <<>>] @@ pf,
         match_loop(pf.value, 1, alloc_database(content), heap_with_database(content)),
         Len(ComedogenicDbLiteral) + Len(content) + 1)

\* analyze_food_image(image_bytes, top_k): files are the files on disk, image and
\* order as for predict_food, (mc, lc, n) the cache state.  The exception raised
\* ("none" when it returns), the new cache, the heap, and the returned
\* (entry, detected_labels)
analyze_food_image(files, image, top_k, order, mc, lc, n) ==
  IF load_acne_food_database(files) = <<>>
  THEN [exc |-> "FileNotFoundError", model_cache |-> mc, labels_cache |-> lc, loads |-> n,
        heap |-> ModuleHeap, database |-> <<>>, predictions |-> <<>>,
        entry |-> NullRef, detected_labels |-> <<>>, value |-> <<>>]
  ELSE analyze_loaded(load_acne_food_database(files)[1],
                      predict_food(files, image, top_k, order, mc, lc, n))

-----------------------------------------------------------------------------
(* main.py: POST /analyze_food *)

\* the top_k the handler asks for
HandlerTopK == 3

\* isinstance(exc, cls) for the exception classes that occur: every one of them
\* derives from Exception, none from another of them
isinstance(exc, cls) == cls = exc \/ cls = "Exception"

\* the except clauses of analyze_food_post, in the order written
ExceptClauses == <<"HTTPException", "FileNotFoundError", "Exception">>

\* the clauses with the catch-all written first
ExceptClausesGenericFirst == <<"Exception", "HTTPException", "FileNotFoundError">>

\* the clause that handles an exception under clauses written in the order Exception first
except_clause_generic_first(exc) ==
  ExceptClausesGenericFirst[CHOOSE i \in 1..Len(ExceptClausesGenericFirst) :
     /\ isinstance(exc, ExceptClausesGenericFirst[i])
     /\ \A j \in 1..(i - 1) : ~isinstance(exc, ExceptClausesGenericFirst[j])]

\* the except clause that handles an exception raised in the try block: the first
\* clause whose class the exception is an instance of
except_clause(exc) ==
  ExceptClauses[CHOOSE i \in 1..Len(ExceptClauses) :
     /\ isinstance(exc, ExceptClauses[i])
     /\ \A j \in 1..(i - 1) : ~isinstance(exc, ExceptClauses[j])]

\* what the try block of analyze_food_post raises: the pipeline's exception, the
\* HTTPException of the else branch when no entry came back, or nothing
try_raises(inner) ==
  IF inner.exc # "none" THEN inner.exc
  ELSE IF inner.entry # NullRef THEN "none"
  ELSE "HTTPException"

\* the response of analyze_food_post once the pipeline has run
respond(inner, raised) ==
  IF raised = "none"
  THEN [inner |-> inner, status |-> 200, error |-> "", detected |-> <<>>]
  ELSE CASE except_clause(raised) = "HTTPException" ->
              [inner |-> inner, status |-> 404, error |-> "Food not found in database",
               detected |-> str_join(<<",", " ">>, inner.detected_labels)]
         [] except_clause(raised) = "FileNotFoundError" ->
              [inner |-> inner, status |-> 500, error |-> "Server configuration error",
               detected |-> <<>>]
         [] OTHER ->
              [inner |-> inner, status |-> 500, error |-> "Failed to analyze image",
               detected |-> <<>>]

\* the pipeline's record when the handler answers before calling it
not_called(mc, lc, n) ==
  [exc |-> "not called", model_cache |-> mc, labels_cache |-> lc, loads |-> n,
   heap |-> ModuleHeap, database |-> <<>>, predictions |-> <<>>,
   entry |-> NullRef, detected_labels |-> <<>>, value |-> <<>>]

\* analyze_food_post: the analysis it ran (inner), and the HTTP response
analyze_food_post(api_key_ok, content_type_ok, files, image, order, mc, lc, n) ==
  IF ~api_key_ok
  THEN [inner |-> not_called(mc, lc, n), status |-> 401, error |-> "Invalid API key",
        detected |-> <<>>]
  ELSE IF ~content_type_ok
  THEN [inner |-> not_called(mc, lc, n), status |-> 400,
        error |-> "Invalid file type. Please upload an image file.", detected |-> <<>>]
  ELSE respond(analyze_food_image(files, image, HandlerTopK, order, mc, lc, n),
               try_raises(analyze_food_image(files, image, HandlerTopK, order, mc, lc, n)))

-----------------------------------------------------------------------------
(* The inputs the calls are made with *)

\* longest database
MaxDb == 2

\* the characters of the strings given to normalize_food_name
NameChars == {"a", "B", "_", "-", " ", "\t"}

\* the strings given to normalize_food_name
NameStrings == UNION { [1..n -> NameChars] : n \in 0..MaxLen }

\* entries of data/acne_food_database.json
DbEntries ==
  { [food |-> <<"a", "v", "o", "c", "a", "d", "o">>, rating |-> "caution"],
    [food |-> <<"A", "v", "o", "c", "a", "d", "o", " ", "O", "i", "l">>, rating |-> "avoid"],
    [food |-> <<"b", "a", "n", "a", "n", "a", "-", "b", "r", "e", "a", "d">>, rating |-> "good"] }

\* the databases: up to MaxDb different entries in any order
Databases ==
  { db \in UNION { [1..n -> DbEntries] : n \in 0..MaxDb } :
      \A i, j \in 1..Len(db) : i # j => db[i] # db[j] }

\* the confidences the model gives
Confidences == {10, 50, 90}

\* the outputs of model.predict for an image
ProbVectors == [1..NumLabels -> Confidences]

\* the top_k arguments: negative, zero, up to more than there are labels
TopKs == (0 - 1)..(NumLabels + 1)

\* all files in place
AllFiles(content) == [db |-> <<content>>, model |-> TRUE, labels |-> "list"]

\* food names for the text lookup, and the strings they are cut from
TextBases ==
  { <<" ", "P", "u", "m", "p", "k", "i", "n", " ", "S", "e", "e", "d", "s", " ">>,   \* " Pumpkin Seeds "
    <<"A", "v", "o", "c", "a", "d", "o", " ", "O", "i", "l">>,                        \* "Avocado Oil"
    <<"m", "y", "s", "t", "e", "r", "y", " ", "f", "r", "u", "i", "t">>,              \* "mystery fruit"
    <<"c", "o", "c", "o", "n", "u", "t", "-", "o", "i", "l">>,                        \* "coconut-oil"
    <<"C", "O", "C", "O", "A">>,                                                      \* "COCOA"
    <<"r", "o", "s", "e", "h", "i", "p", " ", "s", "e", "e", "d", " ", "o", "i", "l">>, \* "rosehip seed oil"
    <<"o", "l", "i", "v", "e", " ", "o", "y", "l">>,                                  \* "olive oyl"
    <<"c", "a", "s", "t", "o", "r", " ", "b", "e", "a", "n", "s">>,                   \* "castor beans"
    <<"p", "i", "z", "z", "a">> }                                                     \* "pizza"

\* every substring of the bases, the empty string included
TextInputs ==
  { SubSeq(b, i, j) : <<b, i, j>> \in
      UNION { {b} \X (1..(Len(b) + 1)) \X (0..Len(b)) : b \in TextBases } }

-----------------------------------------------------------------------------
(* The calls *)

\* the module-level state no call of the sequential interface touches
StaticUnchanged ==
  UNCHANGED <<FOOD_TO_CARRIER, COMEDOGENIC_DB, processor_foodcheck, model_foodcheck,
              hf_loads, input, pc, local>>

\* normalize_food_name(name)
NormalizeFoodName(name) ==
  /\ call' = [op |-> "normalize_food_name", name |-> name]
  /\ ret' = [exc |-> "none", value |-> normalize_food_name(name)]
  /\ heap' = ModuleHeap
  /\ database' = <<>>
  /\ UNCHANGED <<_model_cache, _labels_cache, loads>>
  /\ StaticUnchanged

\* get_ingredient_info(food_name)
GetIngredientInfo(food_name) ==
  /\ call' = [op |-> "get_ingredient_info", food_name |-> food_name]
  /\ ret' = [exc |-> "none", value |-> get_ingredient_info(food_name)]
  /\ heap' = ModuleHeap
  /\ database' = <<>>
  /\ UNCHANGED <<_model_cache, _labels_cache, loads>>
  /\ StaticUnchanged

\* match_food(label, database): database_arg is <<>> for None (the default, the
\* function then loads the file) and <<content>> for a list the caller loaded
MatchFood(label, database_arg, files) ==
  \E loaded \in {IF database_arg = <<>> THEN load_acne_food_database(files) ELSE database_arg} :
    /\ call' = [op |-> "match_food", label |-> label, database_arg |-> database_arg,
                db |-> IF loaded = <<>> THEN <<>> ELSE loaded[1]]
    /\ IF loaded = <<>>
       THEN /\ ret' = [exc |-> "FileNotFoundError", value |-> NullRef]
            /\ database' = <<>>
            /\ heap' = ModuleHeap
       ELSE /\ database' = alloc_database(loaded[1])
            /\ heap' = heap_with_database(loaded[1])
            /\ ret' = [exc |-> "none",
                       value |-> match_food(label, alloc_database(loaded[1]),
                                            heap_with_database(loaded[1]))]
    /\ UNCHANGED <<_model_cache, _labels_cache, loads>>
    /\ StaticUnchanged

\* predict_food(image_bytes, top_k)
PredictFood(files, image, top_k) ==
  \E order \in (IF image = <<>> THEN {<<>>} ELSE argsort(image[1])) :
    \E out \in {predict_food(files, image, top_k, order, _model_cache, _labels_cache, loads)} :
        /\ call' = [op |-> "predict_food", files |-> files, image |-> image, top_k |-> top_k]
        /\ ret' = [exc |-> out.exc, value |-> out.value]
        /\ _model_cache' = out.model_cache
        /\ _labels_cache' = out.labels_cache
        /\ loads' = out.loads
        /\ heap' = ModuleHeap
        /\ database' = <<>>
        /\ StaticUnchanged

\* analyze_food_image(image_bytes, top_k)
AnalyzeFoodImage(files, image, top_k) ==
  \E order \in (IF image = <<>> THEN {<<>>} ELSE argsort(image[1])) :
    \E out \in {analyze_food_image(files, image, top_k, order, _model_cache, _labels_cache, loads)} :
        /\ call' = [op |-> "analyze_food_image", files |-> files, image |-> image,
                    top_k |-> top_k, predictions |-> out.predictions]
        /\ ret' = [exc |-> out.exc, value |-> <<out.entry, out.detected_labels>>]
        /\ _model_cache' = out.model_cache
        /\ _labels_cache' = out.labels_cache
        /\ loads' = out.loads
        /\ heap' = out.heap
        /\ database' = out.database
        /\ StaticUnchanged

\* load_model_and_labels(), called directly
LoadModelAndLabels(files) ==
  \E out \in {load_model_and_labels(_model_cache, _labels_cache, loads, files)} :
    /\ call' = [op |-> "load_model_and_labels", files |-> files]
    /\ ret' = [exc |-> out.exc,
               value |-> IF out.exc = "none" THEN <<out.model_cache, out.labels_cache[1]>>
                         ELSE <<>>]
    /\ _model_cache' = out.model_cache
    /\ _labels_cache' = out.labels_cache
    /\ loads' = out.loads
    /\ heap' = ModuleHeap
    /\ database' = <<>>
    /\ StaticUnchanged

\* POST /analyze_food
AnalyzeFoodPost(api_key_ok, content_type_ok, files, image) ==
  \E order \in (IF image = <<>> THEN {<<>>} ELSE argsort(image[1])) :
    \E out \in {analyze_food_post(api_key_ok, content_type_ok, files, image, order,
                                  _model_cache, _labels_cache, loads)} :
      /\ call' = [op |-> "POST /analyze_food", api_key_ok |-> api_key_ok,
                  content_type_ok |-> content_type_ok, files |-> files, image |-> image,
                  cached |-> (_model_cache # NullRef /\ _labels_cache # <<>>),
                  predictions |-> out.inner.predictions,
                  inner |-> [exc |-> out.inner.exc,
                             value |-> <<out.inner.entry, out.inner.detected_labels>>]]
      /\ ret' = [status |-> out.status, error |-> out.error, detected |-> out.detected]
      /\ _model_cache' = out.inner.model_cache
      /\ _labels_cache' = out.inner.labels_cache
      /\ loads' = out.inner.loads
      /\ heap' = out.inner.heap
      /\ database' = out.inner.database
      /\ StaticUnchanged

-----------------------------------------------------------------------------
(* The specifications *)

\* the module-level state after import, before any call
InitGlobals ==
  /\ FOOD_TO_CARRIER = FoodToCarrierLiteral
  /\ COMEDOGENIC_DB = [i \in 1..Len(ComedogenicDbLiteral) |-> <<ComedogenicDbLiteral[i][1], i>>]
  /\ heap = StaticHeap
  /\ database = <<>>
  /\ _model_cache = NullRef
  /\ _labels_cache = <<>>
  /\ loads = 0
  /\ processor_foodcheck = NullRef
  /\ model_foodcheck = NullRef
  /\ hf_loads = <<0, 0>>
  /\ call = [op |-> "none"]
  /\ ret = [exc |-> "none"]

\* the state after import with no thread besides the caller's
InitModule ==
  /\ InitGlobals
  /\ pc = <<>>
  /\ local = <<>>

\* the matching core: a database, an image and a top_k, all files in place
Init ==
  /\ InitModule
  /\ input \in [db : Databases, probs : ProbVectors, top_k : TopKs]

Next ==
  \/ \E food_name \in {b \in TextBases : Len(b) <= 5} : GetIngredientInfo(food_name)
  \/ \E i \in 1..NumLabels, database_arg \in {<<>>, <<input.db>>} :
       MatchFood(LabelsList[i], database_arg, AllFiles(input.db))
  \/ PredictFood(AllFiles(input.db), <<input.probs>>, input.top_k)
  \/ AnalyzeFoodImage(AllFiles(input.db), <<input.probs>>, input.top_k)

Spec == Init /\ [][Next]_vars

\* the normalizer alone
InitNormalize ==
  /\ InitModule
  /\ input \in [name : NameStrings]

NextNormalize == NormalizeFoodName(input.name)

SpecNormalize == InitNormalize /\ [][NextNormalize]_vars

\* the text lookup alone
InitText ==
  /\ InitModule
  /\ input \in [food_name : TextInputs]

NextText == GetIngredientInfo(input.food_name)

SpecText == InitText /\ [][NextText]_vars

-----------------------------------------------------------------------------
(* The matching core: properties *)

\* the candidates of the last analyze_food_image call that match_food resolves
MatchingCandidates ==
  { i \in 1..Len(call.predictions) : match_food(call.predictions[i][1], database, heap) # NullRef }

\* C1: when analyze_food_image returns a match, its detected_label and confidence
\* are those of one candidate, that candidate is resolved by match_food, the
\* returned entry is the one match_food gives for it, and no earlier candidate
\* is resolved by match_food
C1_FirstMatchingCandidateWins ==
  (call.op = "analyze_food_image" /\ ret.exc = "none" /\ ret.value[1] # NullRef) =>
    \E i \in MatchingCandidates :
      /\ \A j \in MatchingCandidates : i <= j
      /\ heap[ret.value[1]].detected_label = call.predictions[i][1]
      /\ heap[ret.value[1]].confidence = call.predictions[i][2]
      /\ LET stored == heap[match_food(call.predictions[i][1], database, heap)]
         IN  \A k \in DOMAIN stored : heap[ret.value[1]][k] = stored[k]

\* C1 witness: a match was returned for a candidate that is not the first one tried
C1_Witness ==
  /\ call.op = "analyze_food_image"
  /\ ret.exc = "none"
  /\ ret.value[1] # NullRef
  /\ 1 \notin MatchingCandidates
  /\ heap[ret.value[1]].confidence < call.predictions[1][2]

\* the entries of the last match_food call whose normalized food equals the normalized label
ExactEntries ==
  { i \in 1..Len(database) :
      normalize_food_name(heap[database[i]].food) = normalize_food_name(call.label) }

\* the entries of the last match_food call that pass the substring test
ContainsEntries ==
  { i \in 1..Len(database) :
      \/ str_in(normalize_food_name(heap[database[i]].food), normalize_food_name(call.label))
      \/ str_in(normalize_food_name(call.label), normalize_food_name(heap[database[i]].food)) }

\* C2: when some entry's normalized food equals the normalized label, match_food
\* returns the first such entry in database order, whatever earlier entries pass
\* the substring test
C2_ExactBeforePartial ==
  (call.op = "match_food" /\ ExactEntries # {}) =>
    \E i \in ExactEntries :
      /\ \A j \in ExactEntries : i <= j
      /\ ret.value = database[i]

\* C2 witness: the exact entry was returned although an earlier entry passes the
\* substring test
C2_Witness ==
  /\ call.op = "match_food"
  /\ ExactEntries # {}
  /\ \E i \in ContainsEntries : \A j \in ExactEntries : i < j
  /\ \E j \in ExactEntries : ret.value = database[j]

\* C3: when no candidate matches, analyze_food_image returns no entry and the
\* candidates' labels, as many and in the order of the candidate list
C3_NoMatchReturnsAllLabels ==
  (call.op = "analyze_food_image" /\ ret.exc = "none" /\ MatchingCandidates = {}) =>
    /\ ret.value[1] = NullRef
    /\ Len(ret.value[2]) = Len(call.predictions)
    /\ \A i \in 1..Len(call.predictions) : ret.value[2][i] = call.predictions[i][1]

\* C3 witness: no candidate matched and two different labels were tried
C3_Witness ==
  /\ call.op = "analyze_food_image"
  /\ ret.exc = "none"
  /\ MatchingCandidates = {}
  /\ ret.value[1] = NullRef
  /\ Len(ret.value[2]) >= 2
  /\ ret.value[2][1] # ret.value[2][2]

\* the content of the database last handed to the matcher, as it was loaded
LoadedContent ==
  IF call.op = "match_food" THEN call.db
  ELSE IF call.op = "analyze_food_image" /\ call.files.db # <<>> THEN call.files.db[1]
  ELSE <<>>

\* C4: FOOD_TO_CARRIER, COMEDOGENIC_DB and its records are as written in the source
\* after every call, every entry of the database handed to the matcher is as it
\* was loaded, and the entry analyze_food_image returns is none of the stored ones
C4_TablesAndDatabaseUnchanged ==
  /\ FOOD_TO_CARRIER = FoodToCarrierLiteral
  /\ Len(COMEDOGENIC_DB) = Len(ComedogenicDbLiteral)
  /\ \A i \in 1..Len(ComedogenicDbLiteral) :
       /\ COMEDOGENIC_DB[i][1] = ComedogenicDbLiteral[i][1]
       /\ heap[COMEDOGENIC_DB[i][2]] = ComedogenicDbLiteral[i][2]
  /\ Len(database) = Len(LoadedContent)
  /\ \A i \in 1..Len(database) : heap[database[i]] = LoadedContent[i]
  /\ (call.op = "analyze_food_image" /\ ret.value[1] # NullRef) =>
       \A i \in 1..Len(database) : ret.value[1] # database[i]

\* C4 witness: analyze_food_image returned an entry carrying detected_label and confidence
C4_Witness ==
  /\ call.op = "analyze_food_image"
  /\ ret.exc = "none"
  /\ ret.value[1] # NullRef
  /\ {"detected_label", "confidence"} \subseteq DOMAIN heap[ret.value[1]]

-----------------------------------------------------------------------------
(* The normalizer and the text lookup: properties *)

\* C6: the result of normalize_food_name is a fixed point of normalize_food_name,
\* and has no upper-case letter, underscore, hyphen, leading or trailing space, or
\* two spaces in a row
C6_NormalizeIdempotent ==
  call.op = "normalize_food_name" =>
    LET r == ret.value
    IN  /\ normalize_food_name(r) = r
        /\ \A i \in 1..Len(r) : r[i] \notin DOMAIN LowerMap /\ r[i] # "_" /\ r[i] # "-"
        /\ r # <<>> => (r[1] # " " /\ r[Len(r)] # " ")
        /\ \A i \in 1..(Len(r) - 1) : ~(r[i] = " " /\ r[i + 1] = " ")

\* C6 witness: a name with an upper-case letter and two separators in a row was
\* normalized to two words
C6_Witness ==
  /\ call.op = "normalize_food_name"
  /\ call.name = <<"B", "_", "-", "a">>
  /\ ret.value = <<"b", " ", "a">>

\* n of the last get_ingredient_info call: the input lower-cased and trimmed
LookupText == str_strip(str_lower(call.food_name))

\* the positions of the synonym keys equal to n
ExactKeys == { i \in 1..Len(FoodToCarrierLiteral) : FoodToCarrierLiteral[i][1] = LookupText }

\* the positions of the synonym keys K with K a substring of n or n a substring of K
PartialKeys ==
  { i \in 1..Len(FoodToCarrierLiteral) :
      \/ str_in(FoodToCarrierLiteral[i][1], LookupText)
      \/ str_in(LookupText, FoodToCarrierLiteral[i][1]) }

\* the COMEDOGENIC_DB record of the canonical name of the synonym at position i
RecordOfKey(i) ==
  LET j == CHOOSE j \in 1..Len(ComedogenicDbLiteral) :
             ComedogenicDbLiteral[j][1] = FoodToCarrierLiteral[i][2]
  IN  ComedogenicDbLiteral[j][2]

\* C7: get_ingredient_info returns the record of the key equal to n when there is
\* one, else the record of the first key in definition order that contains n or
\* is contained in n, and None exactly when no key passes either test
C7_ExactThenFirstPartial ==
  call.op = "get_ingredient_info" =>
    /\ ExactKeys # {} =>
         /\ ret.value # NullRef
         /\ \A i \in ExactKeys : heap[ret.value] = RecordOfKey(i)
    /\ (ExactKeys = {} /\ PartialKeys # {}) =>
         /\ ret.value # NullRef
         /\ \E i \in PartialKeys :
              /\ \A j \in PartialKeys : i <= j
              /\ heap[ret.value] = RecordOfKey(i)
    /\ (ret.value = NullRef) <=> (ExactKeys = {} /\ PartialKeys = {})
    /\ call.food_name = <<"m", "y", "s", "t", "e", "r", "y", " ", "f", "r", "u", "i", "t">>
         => ret.value = NullRef

\* C7 witness: no key equals the input, several keys of different canonical names
\* pass the substring test, and a record was returned
C7_Witness ==
  /\ call.op = "get_ingredient_info"
  /\ ExactKeys = {}
  /\ \E i, j \in PartialKeys : RecordOfKey(i) # RecordOfKey(j)
  /\ ret.value # NullRef

-----------------------------------------------------------------------------
(* The classifier: properties *)

\* C9: predict_food returns at most max(top_k, 0) pairs, in order of
\* non-increasing confidence, and no label left out has a higher confidence than
\* a label returned.  The code breaks it for top_k <= 0
C9_AtMostTopK ==
  (call.op = "predict_food" /\ ret.exc = "none") =>
    /\ Len(ret.value) <= (IF call.top_k > 0 THEN call.top_k ELSE 0)
    /\ \A i \in 1..(Len(ret.value) - 1) : ret.value[i][2] >= ret.value[i + 1][2]
    /\ \A i \in 1..Len(ret.value) :
         Cardinality({ j \in 1..NumLabels : call.image[1][j] > ret.value[i][2] }) < i

\* what does hold of predict_food: the same, for top_k >= 1
PredictFoodTopKPositive ==
  (call.op = "predict_food" /\ ret.exc = "none" /\ call.top_k >= 1) =>
    /\ Len(ret.value) = (IF call.top_k < NumLabels THEN call.top_k ELSE NumLabels)
    /\ \A i \in 1..(Len(ret.value) - 1) : ret.value[i][2] >= ret.value[i + 1][2]
    /\ \A i \in 1..Len(ret.value) :
         Cardinality({ j \in 1..NumLabels : call.image[1][j] > ret.value[i][2] }) < i

-----------------------------------------------------------------------------
(* The handler and the model cache: sequential calls, the files changing between them *)

\* most keras.models.load_model invocations followed
MaxLoads == 3

\* the states of the database file: missing, an empty database, one avocado entry
DbFileStates ==
  { <<>>, << <<>> >>,
    << << [food |-> <<"a", "v", "o", "c", "a", "d", "o">>, rating |-> "caution"] >> >> }

\* the files on disk at the time of a call
FileStates == [db : DbFileStates, model : BOOLEAN, labels : LabelsFileStates]

InitHandler ==
  /\ InitModule
  /\ input = [probs |-> <<10, 90, 50>>]

NextHandler ==
  \/ \E files \in FileStates, api_key_ok, content_type_ok \in BOOLEAN,
        image \in {<<>>, <<input.probs>>} :
       /\ loads < MaxLoads
       /\ AnalyzeFoodPost(api_key_ok, content_type_ok, files, image)
  \/ \E files \in [model : BOOLEAN, labels : LabelsFileStates] :
       /\ loads < MaxLoads
       /\ LoadModelAndLabels(files)

SpecHandler == InitHandler /\ [][NextHandler]_vars

\* the last call was an authenticated POST /analyze_food with an image content type
HandlerRanPipeline ==
  call.op = "POST /analyze_food" /\ call.api_key_ok /\ call.content_type_ok

\* what the handler does with the outcomes of the pipeline: FileNotFoundError is
\* answered 500 "Server configuration error" and nothing else is, no match is
\* answered 404 with the labels tried and nothing else is
HandlerKeepsOutcomesApart ==
  /\ (call.inner.exc = "FileNotFoundError")
       <=> (ret.status = 500 /\ ret.error = "Server configuration error")
  /\ (call.inner.exc = "none" /\ MatchingCandidates = {}) <=> (ret.status = 404)
  /\ ret.status = 404 =>
       /\ call.inner.value[1] = NullRef
       /\ call.inner.value[2] = [i \in 1..Len(call.predictions) |-> call.predictions[i][1]]
       /\ ret.detected = str_join(<<",", " ">>, call.inner.value[2])
  /\ (call.inner.exc = "none" /\ MatchingCandidates # {}) <=> (ret.status = 200)

\* C8 as stated: analyze_food_image raises FileNotFoundError whenever the database,
\* model or labels file is missing, returns (None, labels) when no candidate
\* matches, and the handler answers 500 "Server configuration error" and 404
C8_AsStated ==
  HandlerRanPipeline =>
    /\ (call.files.db = <<>> \/ ~call.files.model \/ call.files.labels = "missing")
         => call.inner.exc = "FileNotFoundError"
    /\ HandlerKeepsOutcomesApart

\* C8 amended: the model and labels files are looked for only while the cache is
\* incomplete; FileNotFoundError is raised exactly when a file that is looked
\* for is missing
C8_NoMatchApartFromConfigurationError ==
  HandlerRanPipeline =>
    /\ (call.inner.exc = "FileNotFoundError")
         <=> \/ call.files.db = <<>>
             \/ ~call.cached /\ (~call.files.model \/ call.files.labels = "missing")
    /\ HandlerKeepsOutcomesApart

\* C8 witness: no candidate matched, the handler answered 404 with the three labels
C8_Witness ==
  /\ HandlerRanPipeline
  /\ call.inner.exc = "none"
  /\ call.inner.value[1] = NullRef
  /\ Len(call.inner.value[2]) = 3
  /\ ret.status = 404

\* C10 as stated: keras.models.load_model runs at most once, so every call that
\* returns normally returns the model of that one load.  The code loads again on
\* every call made while the labels are not cached
C10_ModelLoadedOnce ==
  /\ loads <= 1
  /\ (call.op = "load_model_and_labels" /\ ret.exc = "none") => ret.value[1] = 1

-----------------------------------------------------------------------------
(* The lazy loaders under threads: each thread makes one call, all files in place, *)
(* and a thread may be preempted between any two statements                        *)

\* number of threads
NumThreads == 2

Threads == 1..NumThreads

\* what a thread's step leaves alone besides the loaders' globals
ThreadFrame ==
  UNCHANGED <<FOOD_TO_CARRIER, COMEDOGENIC_DB, heap, database, input, call, ret>>

\* a thread calls load_model_and_labels()
CallLoadModelAndLabels(t) ==
  /\ pc[t] = "idle"
  /\ pc' = [pc EXCEPT ![t] = "lm_check"]
  /\ UNCHANGED <<_model_cache, _labels_cache, loads, processor_foodcheck, model_foodcheck,
                 hf_loads, local>>
  /\ ThreadFrame

\* if _model_cache is not None and _labels_cache is not None: return them
LmCheck(t) ==
  /\ pc[t] = "lm_check"
  /\ IF _model_cache # NullRef /\ _labels_cache # <<>>
     THEN /\ pc' = [pc EXCEPT ![t] = "done"]
          /\ local' = [local EXCEPT ![t] = <<"load_model_and_labels", _model_cache, _labels_cache>>]
     ELSE /\ pc' = [pc EXCEPT ![t] = "lm_exists"]
          /\ UNCHANGED local
  /\ UNCHANGED <<_model_cache, _labels_cache, loads, processor_foodcheck, model_foodcheck,
                 hf_loads>>
  /\ ThreadFrame

\* if not Path(model_path).exists(): raise; the file is there
LmModelExists(t) ==
  /\ pc[t] = "lm_exists"
  /\ input.files.model
  /\ pc' = [pc EXCEPT ![t] = "lm_load"]
  /\ UNCHANGED <<_model_cache, _labels_cache, loads, processor_foodcheck, model_foodcheck,
                 hf_loads, local>>
  /\ ThreadFrame

\* _model_cache = keras.models.load_model(model_path)
LmLoadModel(t) ==
  /\ pc[t] = "lm_load"
  /\ loads' = loads + 1
  /\ _model_cache' = loads + 1
  /\ pc' = [pc EXCEPT ![t] = "lm_labels"]
  /\ UNCHANGED <<_labels_cache, processor_foodcheck, model_foodcheck, hf_loads, local>>
  /\ ThreadFrame

\* the labels file is there and holds a list: _labels_cache = labels_data
LmLoadLabels(t) ==
  /\ pc[t] = "lm_labels"
  /\ input.files.labels = "list"
  /\ _labels_cache' = <<LabelsList>>
  /\ pc' = [pc EXCEPT ![t] = "lm_return"]
  /\ UNCHANGED <<_model_cache, loads, processor_foodcheck, model_foodcheck, hf_loads, local>>
  /\ ThreadFrame

\* return _model_cache, _labels_cache
LmReturn(t) ==
  /\ pc[t] = "lm_return"
  /\ local' = [local EXCEPT ![t] = <<"load_model_and_labels", _model_cache, _labels_cache>>]
  /\ pc' = [pc EXCEPT ![t] = "done"]
  /\ UNCHANGED <<_model_cache, _labels_cache, loads, processor_foodcheck, model_foodcheck,
                 hf_loads>>
  /\ ThreadFrame

\* a thread calls load_food_model()
CallLoadFoodModel(t) ==
  /\ pc[t] = "idle"
  /\ pc' = [pc EXCEPT ![t] = "lf_check"]
  /\ UNCHANGED <<_model_cache, _labels_cache, loads, processor_foodcheck, model_foodcheck,
                 hf_loads, local>>
  /\ ThreadFrame

\* if processor_foodcheck is None; when it is not, the function returns and the
\* caller reads the two globals
LfCheck(t) ==
  /\ pc[t] = "lf_check"
  /\ IF processor_foodcheck = NullRef
     THEN /\ pc' = [pc EXCEPT ![t] = "lf_processor"]
          /\ UNCHANGED local
     ELSE /\ pc' = [pc EXCEPT ![t] = "done"]
          /\ local' = [local EXCEPT ![t] = <<"load_food_model", processor_foodcheck, model_foodcheck>>]
  /\ UNCHANGED <<_model_cache, _labels_cache, loads, processor_foodcheck, model_foodcheck,
                 hf_loads>>
  /\ ThreadFrame

\* processor_foodcheck = AutoProcessor.from_pretrained(...)
LfLoadProcessor(t) ==
  /\ pc[t] = "lf_processor"
  /\ hf_loads' = <<hf_loads[1] + 1, hf_loads[2]>>
  /\ processor_foodcheck' = hf_loads[1] + 1
  /\ pc' = [pc EXCEPT ![t] = "lf_model"]
  /\ UNCHANGED <<_model_cache, _labels_cache, loads, model_foodcheck, local>>
  /\ ThreadFrame

\* model_foodcheck = AutoModelForImageClassification.from_pretrained(...), then the
\* function returns and the caller reads the two globals
LfLoadModel(t) ==
  /\ pc[t] = "lf_model"
  /\ hf_loads' = <<hf_loads[1], hf_loads[2] + 1>>
  /\ model_foodcheck' = hf_loads[2] + 1
  /\ local' = [local EXCEPT ![t] = <<"load_food_model", processor_foodcheck, hf_loads[2] + 1>>]
  /\ pc' = [pc EXCEPT ![t] = "done"]
  /\ UNCHANGED <<_model_cache, _labels_cache, loads, processor_foodcheck>>
  /\ ThreadFrame

InitThreads ==
  /\ InitGlobals
  /\ input = [files |-> AllFiles(<<>>)]
  /\ pc = [t \in Threads |-> "idle"]
  /\ local = [t \in Threads |-> <<>>]

NextThreads ==
  \E t \in Threads :
    \/ CallLoadModelAndLabels(t)
    \/ LmCheck(t)
    \/ LmModelExists(t)
    \/ LmLoadModel(t)
    \/ LmLoadLabels(t)
    \/ LmReturn(t)
    \/ CallLoadFoodModel(t)
    \/ LfCheck(t)
    \/ LfLoadProcessor(t)
    \/ LfLoadModel(t)

SpecThreads == InitThreads /\ [][NextThreads]_vars

\* C5 as stated: under any interleaving of concurrent first calls of
\* load_model_and_labels the Keras model is loaded at most once and all callers
\* come back with the same cached pair.  Nothing guards the loader: two threads
\* that both pass the check at line 45 both load
C5_LoadedAtMostOnce ==
  /\ loads <= 1
  /\ \A t, u \in Threads :
       (pc[t] = "done" /\ pc[u] = "done"
          /\ local[t][1] = "load_model_and_labels" /\ local[u][1] = "load_model_and_labels")
       => local[t] = local[u]

\* the same for load_food_model: processor and model are each loaded at most once,
\* and no caller comes back with one of them missing.  It fails the same way
FoodModelLoadedAtMostOnce ==
  /\ hf_loads[1] <= 1
  /\ hf_loads[2] <= 1
  /\ \A t \in Threads :
       (pc[t] = "done" /\ local[t][1] = "load_food_model")
       => (local[t][2] # NullRef /\ local[t][3] # NullRef)

-----------------------------------------------------------------------------
(* main.py: load_food_model and POST /analyze_image, sequential calls *)

\* most from_pretrained invocations followed
MaxPretrained == 3

\* food_keywords of analyze_image, in the order written
food_keywords ==
  <<
     <<"f", "o", "o", "d">>,
     <<"d", "i", "s", "h">>,
     <<"m", "e", "a", "l">>,
     <<"p", "a", "s", "t", "a">>,
     <<"s", "a", "l", "a", "d">>,
     <<"s", "o", "u", "p">>,
     <<"f", "r", "u", "i", "t">>,
     <<"b", "r", "e", "a", "d">>,
     <<"c", "a", "k", "e">>,
     <<"b", "u", "r", "g", "e", "r">>,
     <<"p", "i", "z", "z", "a">>,
     <<"n", "o", "o", "d", "l", "e", "s">>,
     <<"e", "g", "g">>,
     <<"r", "i", "c", "e">>,
     <<"f", "i", "s", "h">>,
     <<"v", "e", "g", "e", "t", "a", "b", "l", "e">>,
     <<"s", "e", "a", "f", "o", "o", "d">>,
     <<"d", "r", "i", "n", "k">>,
     <<"c", "o", "f", "f", "e", "e">>,
     <<"t", "e", "a">>
  >>

\* the labels the ViT model gives (id2label of the predicted class)
VitLabels ==
  { <<"P", "i", "z", "z", "a">>,                                  \* "Pizza"
    <<"t", "a", "b", "b", "y">>,                                  \* "tabby"
    <<"t", "e", "a", "p", "o", "t">> }                            \* "teapot"

\* load_food_model(): (proc, model) are the two globals, hf the from_pretrained
\* invocations so far, processor_ok / model_ok whether the invocation returns
\* (it raises OSError when the download or the files fail).  The exception
\* raised ("none" when it returns) and the new globals
load_food_model(proc, model, hf, processor_ok, model_ok) ==
  IF proc # NullRef
  THEN [exc |-> "none", processor |-> proc, model |-> model, hf_loads |-> hf]
  ELSE IF ~processor_ok
  THEN [exc |-> "OSError", processor |-> proc, model |-> model,
        hf_loads |-> <<hf[1] + 1, hf[2]>>]
  ELSE IF ~model_ok
  THEN [exc |-> "OSError", processor |-> hf[1] + 1, model |-> model,
        hf_loads |-> <<hf[1] + 1, hf[2] + 1>>]
  ELSE [exc |-> "none", processor |-> hf[1] + 1, model |-> hf[2] + 1,
        hf_loads |-> <<hf[1] + 1, hf[2] + 1>>]

\* analyze_image from the classification on, lf being what load_food_model gave:
\* the exception that leaves the handler ("none" when it answers) and the answer
classify_loaded(lf, vit_label) ==
  IF lf.exc # "none"
  THEN [loaded |-> lf, exc |-> lf.exc, status |-> 500, food_detected |-> <<>>]
  ELSE IF lf.processor = NullRef \/ lf.model = NullRef
  THEN \* calling None: TypeError: 'NoneType' object is not callable
       [loaded |-> lf, exc |-> "TypeError", status |-> 500, food_detected |-> <<>>]
  ELSE IF ~\E i \in 1..Len(food_keywords) : str_in(food_keywords[i], str_lower(vit_label))
  THEN [loaded |-> lf, exc |-> "none", status |-> 400, food_detected |-> <<>>]
  ELSE [loaded |-> lf, exc |-> "none", status |-> 200, food_detected |-> str_lower(vit_label)]

\* analyze_image: the handler of POST /analyze_image
analyze_image(api_key_ok, image_ok, processor_ok, model_ok, vit_label, proc, model, hf) ==
  IF ~api_key_ok
  THEN [loaded |-> [exc |-> "not called", processor |-> proc, model |-> model, hf_loads |-> hf],
        exc |-> "none", status |-> 401, food_detected |-> <<>>]
  ELSE IF ~image_ok
  THEN [loaded |-> [exc |-> "not called", processor |-> proc, model |-> model, hf_loads |-> hf],
        exc |-> "none", status |-> 400, food_detected |-> <<>>]
  ELSE classify_loaded(load_food_model(proc, model, hf, processor_ok, model_ok), vit_label)

\* what a call of the image check leaves alone
FoodModelFrame ==
  UNCHANGED <<FOOD_TO_CARRIER, COMEDOGENIC_DB, heap, database, _model_cache, _labels_cache,
              loads, input, pc, local>>

\* load_food_model(), called directly
LoadFoodModel(processor_ok, model_ok) ==
  \E out \in {load_food_model(processor_foodcheck, model_foodcheck, hf_loads,
                              processor_ok, model_ok)} :
    /\ call' = [op |-> "load_food_model", processor_ok |-> processor_ok, model_ok |-> model_ok]
    /\ ret' = [exc |-> out.exc]
    /\ processor_foodcheck' = out.processor
    /\ model_foodcheck' = out.model
    /\ hf_loads' = out.hf_loads
    /\ FoodModelFrame

\* POST /analyze_image
AnalyzeImage(api_key_ok, image_ok, processor_ok, model_ok, vit_label) ==
  \E out \in {analyze_image(api_key_ok, image_ok, processor_ok, model_ok, vit_label,
                            processor_foodcheck, model_foodcheck, hf_loads)} :
    /\ call' = [op |-> "POST /analyze_image", api_key_ok |-> api_key_ok,
                image_ok |-> image_ok, processor_ok |-> processor_ok,
                model_ok |-> model_ok, vit_label |-> vit_label,
                loaded |-> out.loaded.exc]
    /\ ret' = [exc |-> out.exc, status |-> out.status, food_detected |-> out.food_detected]
    /\ processor_foodcheck' = out.loaded.processor
    /\ model_foodcheck' = out.loaded.model
    /\ hf_loads' = out.loaded.hf_loads
    /\ FoodModelFrame

InitFoodModel ==
  /\ InitModule
  /\ input = [vit_labels |-> VitLabels]

NextFoodModel ==
  \/ \E processor_ok, model_ok \in BOOLEAN :
       /\ hf_loads[1] < MaxPretrained
       /\ LoadFoodModel(processor_ok, model_ok)
  \/ \E api_key_ok, image_ok, processor_ok, model_ok \in BOOLEAN, vit_label \in input.vit_labels :
       /\ hf_loads[1] < MaxPretrained
       /\ AnalyzeImage(api_key_ok, image_ok, processor_ok, model_ok, vit_label)

SpecFoodModel == InitFoodModel /\ [][NextFoodModel]_vars

\* C11 as stated: whenever load_food_model returns normally both globals are
\* loaded, whatever calls came before.  The code tests processor_foodcheck alone: once the model's
\* from_pretrained has raised after the processor's succeeded, every later call
\* returns at once with model_foodcheck still None
C11_BothLoadedOnReturn ==
  ((call.op = "load_food_model" /\ ret.exc = "none")
     \/ (call.op = "POST /analyze_image" /\ call.loaded = "none"))
       => (processor_foodcheck # NullRef /\ model_foodcheck # NullRef)

\* the same between calls (no load is in progress then): processor_foodcheck is
\* loaded only if model_foodcheck is.  Violated as soon as the model's
\* from_pretrained raises after the processor's succeeded
ProcessorOnlyIfModel ==
  processor_foodcheck # NullRef => model_foodcheck # NullRef

\* what does hold of load_food_model: after a normal return the processor is loaded
ProcessorLoadedOnReturn ==
  (call.op = "load_food_model" /\ ret.exc = "none") => processor_foodcheck # NullRef

====
